---- MODULE Spec2Model ----
(***************************************************************************)
(* Alarm scheduling and recurrence resolution of alarm-buddy.              *)
(*                                                                         *)
(* Time is counted in minutes since a Sunday 00:00 (local time, days of    *)
(* fixed length).  A day has HoursPerDay hours of MinutesPerHour minutes.  *)
(* An alarm's "HH:MM" string is kept as the pair <<HH, MM>> that           *)
(* time.split(':').map(Number) yields.                                     *)
(***************************************************************************)
EXTENDS Integers, Sequences, FiniteSets, TLC

\* ---------------------------------------------------------------- bounds
HoursPerDay == 1
MinutesPerHour == 2
MaxNow == 2
MaxAlarms == 1
MaxSnoozeMinutes == 2

MinutesPerDay == HoursPerDay * MinutesPerHour
Weekdays == 0..6
NULL == -1
Dash == -2
SnoozeTag == -3
NoError == "none"

\* ---------------------------------------------------------------- state
VARIABLES
    now,            \* the wall clock (Date.now(), new Date())
    alarms,         \* useAlarmStore.alarms, the in-memory list
    isLoading,      \* useAlarmStore.isLoading
    error,          \* useAlarmStore.error
    nextAlarm,      \* useAlarmStore.nextAlarm (the id of it, or NULL)
    stored,         \* AsyncStorage['@alarm-buddy/alarms']
    scheduled,      \* the notifications expo-notifications holds scheduled
    hasPermission,  \* NotificationService.hasPermission
    last,           \* the operation completed last, the id it was given, and
                    \* whether it answered a notification of that alarm delivered just before
    snoozeEnabled,  \* settings.snoozeEnabled of useSettingsStore
    ring,           \* the ring screen (AlarmRingScreen) and the sound and vibration it drives
    snd,            \* SoundService: its fields, the Audio.Sound instances, the calls in flight
    conc,           \* store handlers in flight between their awaits, and the AsyncStorage queue
    rAlarm, rNow, rNext, rUpcoming, rDone   \* inputs and results of the resolver

storeVars == <<alarms, isLoading, error, nextAlarm>>
resolverVars == <<rAlarm, rNow, rNext, rUpcoming, rDone>>
ringVars == <<snoozeEnabled, ring>>
appVars == <<now, alarms, isLoading, error, nextAlarm, stored, scheduled,
             hasPermission, last>>
vars == <<now, alarms, isLoading, error, nextAlarm, stored, scheduled,
          hasPermission, last, snoozeEnabled, ring, snd, conc,
          rAlarm, rNow, rNext, rUpcoming, rDone>>

\* ---------------------------------------------------------------- dates
\* Date.prototype.getDay(): 0 = Sunday
getDay(t) == (t \div MinutesPerDay) % 7

\* d.setHours(hours, minutes, 0, 0) on a copy of t
setHours(t, hours, minutes) ==
    (t \div MinutesPerDay) * MinutesPerDay + hours * MinutesPerHour + minutes

\* d.setDate(d.getDate() + i)
addDays(t, i) == t + i * MinutesPerDay

\* Object.values(repeat).some(day => day); a repeat mask is the set of the
\* weekdays (0 = sun .. 6 = sat) whose flag is true
isRepeating(repeat) == \E d \in Weekdays : d \in repeat

\* ------------------------------------------------------- recurrence resolver
\* a scan that stops a day short, "i <= 6": the same weekday a week on is missed
RECURSIVE nextDayScanSix(_, _, _)
nextDayScanSix(alarm, t, i) ==
    IF i > 6 THEN NULL
    ELSE IF ((getDay(t) + i) % 7) \in alarm.repeat
         THEN setHours(addDays(t, i), alarm.time[1], alarm.time[2])
         ELSE nextDayScanSix(alarm, t, i + 1)

\* the scan "for (let i = 1; i <= 7; i++)" of getNextAlarmTime, from offset i
RECURSIVE nextDayScan(_, _, _)
nextDayScan(alarm, t, i) ==
    IF i > 7 THEN NULL
    ELSE IF ((getDay(t) + i) % 7) \in alarm.repeat
         THEN setHours(addDays(t, i), alarm.time[1], alarm.time[2])
         ELSE nextDayScan(alarm, t, i + 1)

\* a resolver that takes today's occurrence when it is not before now, "today >= now"
getNextAlarmTimeAtOrAfter(alarm, t) ==
    IF ~alarm.enabled THEN NULL
    ELSE LET today == setHours(t, alarm.time[1], alarm.time[2])
         IN  IF ~isRepeating(alarm.repeat)
             THEN IF today >= t THEN today ELSE addDays(today, 1)
             ELSE IF getDay(t) \in alarm.repeat /\ today >= t
                  THEN today
                  ELSE nextDayScan(alarm, t, 1)

getNextAlarmTime(alarm, t) ==
    IF ~alarm.enabled THEN NULL
    ELSE LET hours == alarm.time[1]
             minutes == alarm.time[2]
             today == setHours(t, hours, minutes)
         IN  IF ~isRepeating(alarm.repeat)
             THEN IF today > t THEN today ELSE addDays(today, 1)
             ELSE IF getDay(t) \in alarm.repeat /\ today > t
                  THEN today
                  ELSE nextDayScan(alarm, t, 1)

\* a loop that leaves out the test "alarmDate > now"
RECURSIVE upcomingScanAnyTime(_, _, _)
upcomingScanAnyTime(alarm, t, i) ==
    IF i >= 7 THEN <<>>
    ELSE LET date == setHours(addDays(t, i), alarm.time[1], alarm.time[2])
         IN  IF getDay(date) \in alarm.repeat
             THEN <<date>> \o upcomingScanAnyTime(alarm, t, i + 1)
             ELSE upcomingScanAnyTime(alarm, t, i + 1)

\* the loop "for (let i = 0; i < 7; i++)" of getUpcomingAlarmTimes, from offset i
RECURSIVE upcomingScan(_, _, _)
upcomingScan(alarm, t, i) ==
    IF i >= 7 THEN <<>>
    ELSE LET date == setHours(addDays(t, i), alarm.time[1], alarm.time[2])
         IN  IF getDay(date) \in alarm.repeat /\ date > t
             THEN <<date>> \o upcomingScan(alarm, t, i + 1)
             ELSE upcomingScan(alarm, t, i + 1)

\* times.sort((a, b) => a.getTime() - b.getTime()): insertion into a sorted sequence
RECURSIVE sortTimes(_)
sortTimes(times) ==
    IF times = <<>> THEN <<>>
    ELSE LET rest == sortTimes(Tail(times))
             x == Head(times)
             k == Cardinality({j \in 1..Len(rest) : rest[j] <= x})
         IN  SubSeq(rest, 1, k) \o <<x>> \o SubSeq(rest, k + 1, Len(rest))

getUpcomingAlarmTimes(alarm, t) ==
    IF ~alarm.enabled THEN <<>>
    ELSE IF ~isRepeating(alarm.repeat)
         THEN LET nextTime == getNextAlarmTime(alarm, t)
              IN  IF nextTime # NULL THEN <<nextTime>> ELSE <<>>
         ELSE sortTimes(upcomingScan(alarm, t, 0))

\* ------------------------------------------------------------ identifiers
\* An alarm id `alarm_${now}_${rand}` is the token sequence <<now>> \o rand; a
\* notification identifier is the id followed by Dash and further tokens.
RandStrings == {<<>>, <<0>>}

\* `alarm_${now}_${Math.random().toString(36).substr(2, 9)}`
makeAlarmId(t, rand) == <<t>> \o rand

\* dayIndex !== undefined ? `${alarmId}-${dayIndex}` : alarmId
getNotificationId(alarmId, dayIndex) == alarmId \o <<Dash, dayIndex>>

\* `${alarmId}-snooze-${Date.now()}`
snoozeNotificationId(alarmId, t) == alarmId \o <<Dash, SnoozeTag, Dash, t>>

\* notification.identifier.startsWith(alarmId)
startsWith(identifier, alarmId) ==
    /\ Len(identifier) >= Len(alarmId)
    /\ SubSeq(identifier, 1, Len(alarmId)) = alarmId

\* notification.identifier.split('-')[0]
splitDashFirst(identifier) ==
    LET dashes == {i \in 1..Len(identifier) : identifier[i] = Dash}
        stop == IF dashes = {} THEN Len(identifier) + 1
                ELSE CHOOSE i \in dashes : \A j \in dashes : i <= j
    IN  SubSeq(identifier, 1, stop - 1)

\* ---------------------------------------------------- NotificationService
\* A scheduled notification is [identifier, date, alarmId, isSnooze]; every
\* operator returns [ok, sched]: ok = FALSE when it throws.  notifOk = FALSE
\* stands for expo-notifications rejecting the calls of this handler.

\* Notifications.scheduleNotificationAsync({identifier, ...}): one request per identifier
scheduleNotificationAsync(sched, n) ==
    {m \in sched : m.identifier # n.identifier} \cup {n}

cancelAlarm(sched, alarmId, notifOk) ==
    IF ~notifOk THEN [ok |-> FALSE, sched |-> sched]
    ELSE [ok |-> TRUE,
          sched |-> {n \in sched : ~startsWith(n.identifier, alarmId)}]

\* the loop over upcomingTimes.entries() of scheduleAlarm, from position k
RECURSIVE scheduleTimes(_, _, _, _)
scheduleTimes(sched, alarm, times, k) ==
    IF k > Len(times) THEN sched
    ELSE scheduleTimes(
             scheduleNotificationAsync(sched,
                 [identifier |-> getNotificationId(alarm.id, k - 1),
                  date |-> times[k], alarmId |-> alarm.id, isSnooze |-> FALSE]),
             alarm, times, k + 1)

\* an arming that programs the new triggers first and cancels afterwards the
\* identifiers it had found armed for the alarm
scheduleAlarmCancelLast(sched, alarm, t, perm, notifOk) ==
    IF ~perm THEN [ok |-> TRUE, sched |-> sched]
    ELSE IF ~notifOk THEN [ok |-> FALSE, sched |-> sched]
    ELSE LET found == {n.identifier : n \in {m \in sched : startsWith(m.identifier, alarm.id)}}
             armed == IF alarm.enabled
                      THEN scheduleTimes(sched, alarm, getUpcomingAlarmTimes(alarm, t), 1)
                      ELSE sched
         IN  [ok |-> TRUE, sched |-> {n \in armed : n.identifier \notin found}]

scheduleAlarm(sched, alarm, t, perm, notifOk) ==
    IF ~perm THEN [ok |-> TRUE, sched |-> sched]
    ELSE LET c == cancelAlarm(sched, alarm.id, notifOk)
         IN  IF ~c.ok THEN [ok |-> FALSE, sched |-> sched]
             ELSE IF ~alarm.enabled THEN c
             ELSE [ok |-> TRUE,
                   sched |-> scheduleTimes(c.sched, alarm,
                                           getUpcomingAlarmTimes(alarm, t), 1)]

scheduleSnooze(sched, alarmId, snoozeTime, alarm, t, perm, notifOk) ==
    IF ~perm THEN [ok |-> TRUE, sched |-> sched]
    ELSE IF ~notifOk THEN [ok |-> FALSE, sched |-> sched]
    ELSE [ok |-> TRUE,
          sched |-> scheduleNotificationAsync(sched,
                        [identifier |-> snoozeNotificationId(alarmId, t),
                         date |-> snoozeTime, alarmId |-> alarm.id,
                         isSnooze |-> TRUE])]

\* the loop "for (const alarm of alarms.filter(a => a.enabled))" of reconcileAlarms
RECURSIVE rescheduleEnabled(_, _, _, _, _, _)
rescheduleEnabled(sched, list, k, t, perm, notifOk) ==
    IF k > Len(list) THEN sched
    ELSE IF ~list[k].enabled
         THEN rescheduleEnabled(sched, list, k + 1, t, perm, notifOk)
         ELSE LET r == scheduleAlarm(sched, list[k], t, perm, notifOk)
              IN  IF ~r.ok THEN sched
                  ELSE rescheduleEnabled(r.sched, list, k + 1, t, perm, notifOk)

\* the notifications reconcileAlarms cancels: those whose identifier, up to
\* its first '-', is not the id of an enabled alarm
notificationsToCancel(scheduledNotifications, list) ==
    LET enabledAlarmIds == {list[k].id : k \in {j \in 1..Len(list) : list[j].enabled}}
    IN  {n \in scheduledNotifications :
            splitDashFirst(n.identifier) \notin enabledAlarmIds}

\* never throws: getScheduledNotifications answers [] on failure, and the
\* outer try/catch swallows a failed cancel or schedule
reconcileAlarms(sched, list, t, perm, notifOk) ==
    LET scheduledNotifications == IF notifOk THEN sched ELSE {}
    IN  rescheduleEnabled(sched \ notificationsToCancel(scheduledNotifications, list),
                          list, 1, t, perm, notifOk)

\* ---------------------------------------------------------- StorageService
\* Every operator returns [ok, list, message]: ok = FALSE when it throws.
\* storeOk = FALSE stands for AsyncStorage.setItem rejecting.

\* alarms.findIndex(alarm => alarm.id === id), 1-based; 0 when there is none
findIndex(list, id) ==
    LET hits == {k \in 1..Len(list) : list[k].id = id}
    IN  IF hits = {} THEN 0 ELSE CHOOSE k \in hits : \A j \in hits : k <= j

\* alarms.filter(alarm => alarm.id !== alarmId)
RECURSIVE filterOut(_, _)
filterOut(list, id) ==
    IF list = <<>> THEN <<>>
    ELSE IF Head(list).id = id THEN filterOut(Tail(list), id)
         ELSE <<Head(list)>> \o filterOut(Tail(list), id)

\* z.string().regex(/^([01]?[0-9]|2[0-3]):[0-5][0-9]$/), z.number().min(0).max(1);
\* the volume is counted in tenths
VolumeMax == 10
AlarmSchemaOk(alarm) ==
    /\ alarm.time[1] \in 0..(HoursPerDay - 1)
    /\ alarm.time[2] \in 0..(MinutesPerHour - 1)
    /\ alarm.volume \in 0..VolumeMax

saveAlarms(list, storeOk) ==
    IF \E k \in 1..Len(list) : ~AlarmSchemaOk(list[k])
    THEN [ok |-> FALSE, list |-> list, message |-> "ZodError"]
    ELSE IF ~storeOk
    THEN [ok |-> FALSE, list |-> list, message |-> "Failed to save @alarm-buddy/alarms"]
    ELSE [ok |-> TRUE, list |-> list, message |-> NoError]

storageAddAlarm(store, alarm, storeOk) ==
    LET r == saveAlarms(Append(store, alarm), storeOk)
    IN  IF r.ok THEN r ELSE [r EXCEPT !.list = store]

storageUpdateAlarm(store, updatedAlarm, storeOk) ==
    LET index == findIndex(store, updatedAlarm.id)
    IN  IF index = 0
        THEN [ok |-> FALSE, list |-> store, message |-> "Alarm not found"]
        ELSE LET r == saveAlarms([store EXCEPT ![index] = updatedAlarm], storeOk)
             IN  IF r.ok THEN r ELSE [r EXCEPT !.list = store]

storageDeleteAlarm(store, alarmId, storeOk) ==
    LET r == saveAlarms(filterOut(store, alarmId), storeOk)
    IN  IF r.ok THEN r ELSE [r EXCEPT !.list = store]

\* getAlarms: getItem answers the default, [], when AsyncStorage.getItem
\* rejects, JSON.parse throws or the stored data fail z.array(AlarmSchema)
getAlarms(store, readOk) == IF readOk THEN store ELSE <<>>

\* addAlarm, updateAlarm and deleteAlarm of StorageService on the list that
\* getAlarms answered; the stored list stays when nothing is written
storageAddAlarmRead(store, alarm, readOk, storeOk) ==
    LET r == storageAddAlarm(getAlarms(store, readOk), alarm, storeOk)
    IN  IF r.ok THEN r ELSE [r EXCEPT !.list = store]

storageUpdateAlarmRead(store, updatedAlarm, readOk, storeOk) ==
    LET r == storageUpdateAlarm(getAlarms(store, readOk), updatedAlarm, storeOk)
    IN  IF r.ok THEN r ELSE [r EXCEPT !.list = store]

storageDeleteAlarmRead(store, alarmId, readOk, storeOk) ==
    LET r == storageDeleteAlarm(getAlarms(store, readOk), alarmId, storeOk)
    IN  IF r.ok THEN r ELSE [r EXCEPT !.list = store]

\* ------------------------------------------------------------- alarm store
\* The handlers of useAlarmStore are functions of the record
\* [alarms, isLoading, error, nextAlarm, stored, scheduled] they read and write.
St ==
    [alarms |-> alarms, isLoading |-> isLoading, error |-> error,
     nextAlarm |-> nextAlarm, stored |-> stored, scheduled |-> scheduled]

\* { ...currentAlarms[alarmIndex], ...updates }
merge(alarm, updates) ==
    [f \in DOMAIN alarm |-> IF f \in DOMAIN updates THEN updates[f] ELSE alarm[f]]

\* refreshNextAlarm: the first enabled alarm with the least getNextAlarmTime
refreshNextAlarm(list, t) ==
    LET cand == {k \in 1..Len(list) :
                    list[k].enabled /\ getNextAlarmTime(list[k], t) # NULL}
        best == {k \in cand : \A j \in cand :
                    \/ getNextAlarmTime(list[k], t) < getNextAlarmTime(list[j], t)
                    \/ /\ getNextAlarmTime(list[k], t) = getNextAlarmTime(list[j], t)
                       /\ k <= j}
    IN  IF cand = {} THEN <<>> ELSE <<list[CHOOSE k \in best : TRUE]>>

\* the catch block of a handler that sets isLoading: false
failed(st, message) == [st EXCEPT !.error = message, !.isLoading = FALSE]

addAlarmResult(st, alarmData, rand, t, perm, storeOk, notifOk) ==
    LET newAlarm == [id |-> makeAlarmId(t, rand), time |-> alarmData.time,
                     enabled |-> alarmData.enabled, repeat |-> alarmData.repeat,
                     volume |-> alarmData.volume]
        w == storageAddAlarm(st.stored, newAlarm, storeOk)
        s == scheduleAlarm(st.scheduled, newAlarm, t, perm, notifOk)
    IN  IF ~AlarmSchemaOk(newAlarm) THEN failed(st, "ZodError")
        ELSE IF ~w.ok THEN failed(st, w.message)
        ELSE IF newAlarm.enabled /\ ~s.ok
        THEN failed([st EXCEPT !.stored = w.list], "Failed to schedule alarm")
        ELSE [alarms |-> Append(st.alarms, newAlarm), isLoading |-> FALSE,
              error |-> NoError,
              nextAlarm |-> refreshNextAlarm(Append(st.alarms, newAlarm), t),
              stored |-> w.list,
              scheduled |-> IF newAlarm.enabled THEN s.sched ELSE st.scheduled]

\* an updateAlarm that cancels the alarm's triggers before it validates the
\* merged alarm
updateAlarmCancelFirst(st, id, updates, t, perm, storeOk, notifOk) ==
    LET alarmIndex == findIndex(st.alarms, id)
        updatedAlarm == merge(st.alarms[alarmIndex], updates)
        c == cancelAlarm(st.scheduled, id, notifOk)
        w == storageUpdateAlarm(st.stored, updatedAlarm, storeOk)
        s == scheduleAlarm(c.sched, updatedAlarm, t, perm, notifOk)
        newAlarms == [st.alarms EXCEPT ![alarmIndex] = updatedAlarm]
    IN  IF alarmIndex = 0 THEN failed(st, "Alarm not found")
        ELSE IF ~c.ok THEN failed(st, "Failed to cancel alarm")
        ELSE IF ~AlarmSchemaOk(updatedAlarm)
        THEN failed([st EXCEPT !.scheduled = c.sched], "ZodError")
        ELSE IF ~w.ok THEN failed([st EXCEPT !.scheduled = c.sched], w.message)
        ELSE IF updatedAlarm.enabled /\ ~s.ok
        THEN failed([st EXCEPT !.stored = w.list, !.scheduled = c.sched],
                    "Failed to schedule alarm")
        ELSE [alarms |-> newAlarms, isLoading |-> FALSE, error |-> NoError,
              nextAlarm |-> refreshNextAlarm(newAlarms, t),
              stored |-> w.list,
              scheduled |-> IF updatedAlarm.enabled THEN s.sched ELSE c.sched]

updateAlarmResult(st, id, updates, t, perm, storeOk, notifOk) ==
    LET alarmIndex == findIndex(st.alarms, id)
        updatedAlarm == merge(st.alarms[alarmIndex], updates)
        w == storageUpdateAlarm(st.stored, updatedAlarm, storeOk)
        c == cancelAlarm(st.scheduled, id, notifOk)
        s == scheduleAlarm(c.sched, updatedAlarm, t, perm, notifOk)
        newAlarms == [st.alarms EXCEPT ![alarmIndex] = updatedAlarm]
    IN  IF alarmIndex = 0 THEN failed(st, "Alarm not found")
        ELSE IF ~AlarmSchemaOk(updatedAlarm) THEN failed(st, "ZodError")
        ELSE IF ~w.ok THEN failed(st, w.message)
        ELSE IF ~c.ok
        THEN failed([st EXCEPT !.stored = w.list], "Failed to cancel alarm")
        ELSE IF updatedAlarm.enabled /\ ~s.ok
        THEN failed([st EXCEPT !.stored = w.list, !.scheduled = c.sched],
                    "Failed to schedule alarm")
        ELSE [alarms |-> newAlarms, isLoading |-> FALSE, error |-> NoError,
              nextAlarm |-> refreshNextAlarm(newAlarms, t),
              stored |-> w.list,
              scheduled |-> IF updatedAlarm.enabled THEN s.sched ELSE c.sched]

\* a deleteAlarm that drops the alarm from the list before the Store has
\* accepted the write
deleteAlarmListFirst(st, id, t, storeOk, notifOk) ==
    LET c == cancelAlarm(st.scheduled, id, notifOk)
        w == storageDeleteAlarm(st.stored, id, storeOk)
        updatedAlarms == filterOut(st.alarms, id)
    IN  IF ~c.ok THEN failed(st, "Failed to cancel alarm")
        ELSE IF ~w.ok
        THEN failed([st EXCEPT !.scheduled = c.sched, !.alarms = updatedAlarms],
                    w.message)
        ELSE [alarms |-> updatedAlarms, isLoading |-> FALSE, error |-> NoError,
              nextAlarm |-> refreshNextAlarm(updatedAlarms, t),
              stored |-> w.list, scheduled |-> c.sched]

deleteAlarmResult(st, id, t, storeOk, notifOk) ==
    LET c == cancelAlarm(st.scheduled, id, notifOk)
        w == storageDeleteAlarm(st.stored, id, storeOk)
        updatedAlarms == filterOut(st.alarms, id)
    IN  IF ~c.ok THEN failed(st, "Failed to cancel alarm")
        ELSE IF ~w.ok THEN failed([st EXCEPT !.scheduled = c.sched], w.message)
        ELSE [alarms |-> updatedAlarms, isLoading |-> FALSE, error |-> NoError,
              nextAlarm |-> refreshNextAlarm(updatedAlarms, t),
              stored |-> w.list, scheduled |-> c.sched]

toggleAlarmResult(st, id, t, perm, storeOk, notifOk) ==
    LET k == findIndex(st.alarms, id)
    IN  IF k = 0 THEN [st EXCEPT !.error = "Alarm not found"]
        ELSE updateAlarmResult(st, id, [enabled |-> ~st.alarms[k].enabled],
                               t, perm, storeOk, notifOk)

snoozeAlarmResult(st, id, minutes, t, perm, notifOk) ==
    LET k == findIndex(st.alarms, id)
        snoozeTime == t + minutes
        r == scheduleSnooze(st.scheduled, id, snoozeTime, st.alarms[k], t,
                            perm, notifOk)
    IN  IF k = 0 THEN [st EXCEPT !.error = "Alarm not found"]
        ELSE IF ~r.ok THEN [st EXCEPT !.error = "Failed to schedule snooze"]
        ELSE [st EXCEPT !.scheduled = r.sched]

\* a dismissal that re-arms every alarm, one-time alarms included
dismissAlarmRearm(st, id, t, perm, storeOk, notifOk) ==
    LET c == cancelAlarm(st.scheduled, id, notifOk)
        k == findIndex(st.alarms, id)
        s == scheduleAlarm(c.sched, st.alarms[k], t, perm, notifOk)
    IN  IF ~c.ok THEN [st EXCEPT !.error = "Failed to cancel alarm"]
        ELSE IF k = 0 THEN [st EXCEPT !.scheduled = c.sched]
        ELSE IF ~s.ok
        THEN [st EXCEPT !.scheduled = c.sched, !.error = "Failed to schedule alarm"]
        ELSE [st EXCEPT !.scheduled = s.sched]

dismissAlarmResult(st, id, t, perm, storeOk, notifOk) ==
    LET c == cancelAlarm(st.scheduled, id, notifOk)
        k == findIndex(st.alarms, id)
        s == scheduleAlarm(c.sched, st.alarms[k], t, perm, notifOk)
    IN  IF ~c.ok THEN [st EXCEPT !.error = "Failed to cancel alarm"]
        ELSE IF k = 0 THEN [st EXCEPT !.scheduled = c.sched]
        ELSE IF ~isRepeating(st.alarms[k].repeat)
        THEN updateAlarmResult([st EXCEPT !.scheduled = c.sched], id,
                               [enabled |-> FALSE], t, perm, storeOk, notifOk)
        ELSE IF ~s.ok
        THEN [st EXCEPT !.scheduled = c.sched, !.error = "Failed to schedule alarm"]
        ELSE [st EXCEPT !.scheduled = s.sched]

loadAlarmsResult(st, t, perm, notifOk) ==
    [alarms |-> st.stored, isLoading |-> FALSE, error |-> NoError,
     nextAlarm |-> refreshNextAlarm(st.stored, t),
     stored |-> st.stored,
     scheduled |-> reconcileAlarms(st.scheduled, st.stored, t, perm, notifOk)]

\* ------------------------------------------------------------ ring screen
\* The ring screen's state: the route parameter alarmId, the alarm it found,
\* showTask, taskCompleted, the setTimeout pending in handleTaskComplete (with
\* the taskCompleted and the alarm its closure holds), and whether the sound
\* service is playing and the vibration is running.
NoRing ==
    [mounted |-> FALSE, alarmId |-> <<>>, alarm |-> <<>>, showTask |-> FALSE,
     taskCompleted |-> FALSE, timer |-> <<>>, playing |-> FALSE, vibrating |-> FALSE]

\* stopAlarm: soundService.stopAlarm() and Vibration.cancel()
stopAlarm(r) == [r EXCEPT !.playing = FALSE, !.vibrating = FALSE]

\* router.back(): the screen unmounts, the cleanup of the start effect stops
\* the alarm, the component state is gone; a pending setTimeout is not cleared
unmountRing(r) == [NoRing EXCEPT !.timer = r.timer]

\* a find-alarm effect that leaves the screen open when the alarm is no longer
\* in the list
findAlarmEffectStay(r, list) ==
    IF ~r.mounted \/ findIndex(list, r.alarmId) = 0 THEN r
    ELSE IF r.alarm = <<>>
         THEN [r EXCEPT !.alarm = <<list[findIndex(list, r.alarmId)]>>,
                        !.playing = TRUE, !.vibrating = TRUE]
         ELSE [r EXCEPT !.alarm = <<list[findIndex(list, r.alarmId)]>>]

\* the effect on [params.alarmId, alarms] followed by the start effect on
\* [alarm?.id]: the alarm found is kept and, when it is the first one found,
\* sound and vibration start; an alarm not found sends the screen back
findAlarmEffect(r, list) ==
    IF ~r.mounted THEN r
    ELSE IF findIndex(list, r.alarmId) = 0 THEN unmountRing(r)
    ELSE IF r.alarm = <<>>
         THEN [r EXCEPT !.alarm = <<list[findIndex(list, r.alarmId)]>>,
                        !.playing = TRUE, !.vibrating = TRUE]
         ELSE [r EXCEPT !.alarm = <<list[findIndex(list, r.alarmId)]>>]

\* ------------------------------------------------------------ SoundService
MaxCalls == 2
MaxSounds == 2
NoSound == 0

IdleCall == [op |-> "idle", pc |-> "idle", mine |-> NoSound]

\* sound = null, isPlaying = false, no Audio.Sound instance, no call in flight;
\* stopped: a stopAlarm call has completed and no playAlarm was called since
SoundInit ==
    [sound |-> NoSound, isPlaying |-> FALSE,
     inst |-> [i \in 1..MaxSounds |-> "none"],
     calls |-> [c \in 1..MaxCalls |-> IdleCall],
     stopped |-> FALSE]

\* the body of stopAlarm is over: a stopAlarm call returns, a playAlarm call
\* goes on to Audio.Sound.createAsync
finishStop(s, c) ==
    IF s.calls[c].op = "stop"
    THEN [s EXCEPT !.calls[c] = IdleCall, !.stopped = TRUE]
    ELSE [s EXCEPT !.calls[c].pc = "create"]

\* call c runs from where it is suspended to its next await
soundStep(s, c) ==
    LET pc == s.calls[c].pc
        free == CHOOSE i \in 1..MaxSounds :
                    /\ s.inst[i] = "none"
                    /\ \A d \in 1..MaxCalls : s.calls[d].mine # i
                    /\ \A j \in 1..(i - 1) :
                           s.inst[j] # "none" \/ \E d \in 1..MaxCalls : s.calls[d].mine = j
    IN  IF pc = "stop0"
        THEN IF s.sound = NoSound
             THEN finishStop([s EXCEPT !.isPlaying = FALSE], c)
             ELSE [s EXCEPT !.isPlaying = FALSE,
                            !.inst[s.sound] = IF @ = "playing" THEN "loaded" ELSE @,
                            !.calls[c].pc = "stop1"]
        ELSE IF pc = "stop1"
        THEN IF s.sound = NoSound
             THEN finishStop(s, c)
             ELSE [s EXCEPT !.inst[s.sound] = "none", !.calls[c].pc = "stop2"]
        ELSE IF pc = "stop2"
        THEN finishStop([s EXCEPT !.sound = NoSound], c)
        ELSE IF pc = "create"
        THEN [s EXCEPT !.inst[free] = "loaded", !.calls[c].mine = free,
                       !.calls[c].pc = "status"]
        ELSE IF pc = "status"
        THEN IF s.inst[s.calls[c].mine] = "loaded"
             THEN [s EXCEPT !.sound = s.calls[c].mine,
                            !.inst[s.calls[c].mine] = "playing",
                            !.calls[c].pc = "played"]
             ELSE [s EXCEPT !.sound = s.calls[c].mine, !.calls[c].pc = "played"]
        ELSE [s EXCEPT !.isPlaying = TRUE, !.calls[c] = IdleCall]

\* the playAlarm calls that have not yet been given their Audio.Sound
creating(s) == {c \in 1..MaxCalls : s.calls[c].op = "play" /\ s.calls[c].mine = NoSound}
freeSounds(s) ==
    {i \in 1..MaxSounds :
        s.inst[i] = "none" /\ \A d \in 1..MaxCalls : s.calls[d].mine # i}

\* ------------------------------------------------- store handlers in flight
\* A handler of useAlarmStore runs up to its first await and goes on when the
\* awaited call has resolved; AsyncStorage serves getItem and setItem in the
\* order they were issued.  added and flips record the addAlarm and toggleAlarm
\* calls that ran to their end without an error, starts counts the calls made.
idsOf(list) == {list[k].id : k \in 1..Len(list)}
MaxOps == 2
MaxStarts == 3
IdleOp == [op |-> "idle", pc |-> "idle", alarm |-> <<>>, alarmIndex |-> 0,
           currentAlarms |-> <<>>, value |-> <<>>]
ConcInit == [calls |-> [c \in 1..MaxOps |-> IdleOp], queue |-> <<>>,
             added |-> {}, flips |-> {}, starts |-> 0]

\* ------------------------------------------------------------------ inputs
ValidTimes == (0..(HoursPerDay - 1)) \X (0..(MinutesPerHour - 1))
InputTimes == {<<0, 0>>, <<0, 1>>}
BadTime == <<HoursPerDay, 0>>
BadVolume == VolumeMax + 1
InputRepeats == {{}, {0}, {0, 1, 2}}
DefaultVolume == 8
AlarmInputs ==
    [time : InputTimes, enabled : BOOLEAN, repeat : InputRepeats,
     volume : {DefaultVolume}]
      \cup {[time |-> BadTime, enabled |-> TRUE, repeat |-> {},
             volume |-> DefaultVolume],
            [time |-> <<0, 0>>, enabled |-> TRUE, repeat |-> {},
             volume |-> BadVolume]}
UpdateInputs ==
    {[enabled |-> b] : b \in BOOLEAN}
      \cup {[time |-> tm] : tm \in {<<0, 1>>, BadTime}}
      \cup {[repeat |-> {0}], [volume |-> BadVolume]}
UnknownId == <<NULL>>
KnownIds ==
    {alarms[k].id : k \in 1..Len(alarms)} \cup {stored[k].id : k \in 1..Len(stored)}
SnoozeMinutes == 1..MaxSnoozeMinutes
NoAlarm == [id |-> <<>>, time |-> <<0, 0>>, enabled |-> FALSE, repeat |-> {},
            volume |-> DefaultVolume]

\* the outcomes of AsyncStorage.setItem and of the expo-notifications calls
StoreOutcomes == {TRUE}
NotifOutcomes == {TRUE}

\* ----------------------------------------------------------------- actions
\* the operation answers a notification of alarm id delivered in the step before
justFired(id) == last.op = "deliver" /\ last.id = id

\* a handler has run to its end: the store holds what it computed, and the ring
\* screen, re-rendered as r, runs its effects on the new alarm list
commitWith(st, r, op, id) ==
    /\ alarms' = st.alarms
    /\ isLoading' = st.isLoading
    /\ error' = st.error
    /\ nextAlarm' = st.nextAlarm
    /\ stored' = st.stored
    /\ scheduled' = st.scheduled
    /\ last' = [op |-> op, id |-> id, fired |-> justFired(id)]
    /\ ring' = findAlarmEffect(r, st.alarms)
    /\ UNCHANGED <<conc, snd, now, hasPermission, snoozeEnabled, rAlarm, rNow, rNext, rUpcoming, rDone>>

commit(st, op, id) == commitWith(st, ring, op, id)

loadAlarms ==
    \E notifOk \in NotifOutcomes :
        commit(loadAlarmsResult(St, now, hasPermission, notifOk),
               "loadAlarms", <<>>)

\* addAlarm(alarmData), Math.random() giving rand, AsyncStorage and
\* expo-notifications answering storeOk and notifOk
addAlarmWith(alarmData, rand, storeOk, notifOk) ==
    /\ Len(alarms) < MaxAlarms
    /\ Len(stored) < MaxAlarms
    /\ commit(addAlarmResult(St, alarmData, rand, now, hasPermission,
                             storeOk, notifOk),
              "addAlarm", makeAlarmId(now, rand))

addAlarmOf(alarmData, rand) ==
    \E storeOk \in StoreOutcomes, notifOk \in NotifOutcomes :
        addAlarmWith(alarmData, rand, storeOk, notifOk)

addAlarm == \E alarmData \in AlarmInputs, rand \in RandStrings : addAlarmOf(alarmData, rand)

\* updateAlarm(id, updates)
updateAlarmWith(id, updates, storeOk, notifOk) ==
    commit(updateAlarmResult(St, id, updates, now, hasPermission, storeOk, notifOk),
           "updateAlarm", id)

updateAlarmOf(id, updates) ==
    \E storeOk \in StoreOutcomes, notifOk \in NotifOutcomes :
        updateAlarmWith(id, updates, storeOk, notifOk)

updateAlarm ==
    \E id \in KnownIds \cup {UnknownId}, updates \in UpdateInputs : updateAlarmOf(id, updates)

\* deleteAlarm(id)
deleteAlarmWith(id, storeOk, notifOk) ==
    commit(deleteAlarmResult(St, id, now, storeOk, notifOk), "deleteAlarm", id)

deleteAlarm ==
    \E id \in KnownIds \cup {UnknownId}, storeOk \in StoreOutcomes, notifOk \in NotifOutcomes :
        deleteAlarmWith(id, storeOk, notifOk)

toggleAlarm ==
    \E id \in KnownIds \cup {UnknownId}, storeOk \in StoreOutcomes, notifOk \in NotifOutcomes :
        commit(toggleAlarmResult(St, id, now, hasPermission, storeOk, notifOk),
               "toggleAlarm", id)

\* snoozeAlarm(id, minutes)
snoozeAlarmOf(id, minutes) ==
    \E notifOk \in NotifOutcomes :
        commit(snoozeAlarmResult(St, id, minutes, now, hasPermission, notifOk),
               "snoozeAlarm", id)

snoozeAlarm ==
    \E id \in KnownIds \cup {UnknownId}, minutes \in SnoozeMinutes :
        snoozeAlarmOf(id, minutes)

dismissAlarm ==
    \E id \in KnownIds \cup {UnknownId}, storeOk \in StoreOutcomes, notifOk \in NotifOutcomes :
        commit(dismissAlarmResult(St, id, now, hasPermission, storeOk, notifOk),
               "dismissAlarm", id)

\* NotificationService.initialize(): hasPermission is set once the user grants
initialize ==
    \E granted \in BOOLEAN :
        /\ hasPermission' = (hasPermission \/ granted)
        /\ last' = [op |-> "initialize", id |-> <<>>, fired |-> FALSE]
        /\ UNCHANGED <<conc, snd, snoozeEnabled, ring, now, alarms, isLoading, error, nextAlarm, stored, scheduled,
                       rAlarm, rNow, rNext, rUpcoming, rDone>>

\* the clock advances by a minute once every due notification is delivered
tick ==
    /\ now < MaxNow
    /\ \A n \in scheduled : n.date > now
    /\ now' = now + 1
    /\ last' = [op |-> "tick", id |-> <<>>, fired |-> FALSE]
    /\ UNCHANGED <<conc, snd, snoozeEnabled, ring, alarms, isLoading, error, nextAlarm, stored, scheduled,
                   hasPermission, rAlarm, rNow, rNext, rUpcoming, rDone>>

\* content.data of the notifications that scheduleAlarm and scheduleSnooze
\* program: alarmId, taskType, taskDifficulty (and isSnooze); no type
NoType == "none"
dataType(n) == NoType

\* the notification received listener, for a notification whose data carry
\* type and alarmId: router.push of the ring route
notificationReceived(r, type, alarmId, list) ==
    IF type = "alarm" /\ ~r.mounted
    THEN findAlarmEffect([NoRing EXCEPT !.mounted = TRUE, !.alarmId = alarmId,
                                        !.timer = r.timer], list)
    ELSE r

\* trigger: { date }: the system delivers a notification at its date, once,
\* and the received listener runs on it
deliver ==
    \E n \in scheduled :
        /\ n.date <= now
        /\ scheduled' = scheduled \ {n}
        /\ last' = [op |-> "deliver", id |-> n.alarmId, fired |-> FALSE]
        /\ ring' = notificationReceived(ring, dataType(n), n.alarmId, alarms)
        /\ UNCHANGED <<conc, snd, snoozeEnabled, now, alarms, isLoading, error, nextAlarm, stored,
                       hasPermission, rAlarm, rNow, rNext, rUpcoming, rDone>>

\* the process is killed and started again: the module state is constructed
\* anew, AsyncStorage and the scheduled notifications stay
restart ==
    /\ alarms' = <<>>
    /\ isLoading' = FALSE
    /\ error' = NoError
    /\ nextAlarm' = <<>>
    /\ hasPermission' = FALSE
    /\ last' = [op |-> "restart", id |-> <<>>, fired |-> FALSE]
    /\ UNCHANGED <<conc, snd, snoozeEnabled, ring, now, stored, scheduled,
                   rAlarm, rNow, rNext, rUpcoming, rDone>>

Init ==
    /\ now = 0
    /\ alarms = <<>>
    /\ isLoading = FALSE
    /\ error = NoError
    /\ nextAlarm = <<>>
    /\ stored = <<>>
    /\ scheduled = {}
    /\ hasPermission = FALSE
    /\ snoozeEnabled = TRUE
    /\ ring = NoRing
    /\ snd = SoundInit
    /\ conc = ConcInit
    /\ last = [op |-> "init", id |-> <<>>, fired |-> FALSE]
    /\ rAlarm = NoAlarm
    /\ rNow = 0
    /\ rNext = NULL
    /\ rUpcoming = <<>>
    /\ rDone = TRUE

Next ==
    \/ loadAlarms
    \/ addAlarm
    \/ updateAlarm
    \/ deleteAlarm
    \/ toggleAlarm
    \/ snoozeAlarm
    \/ dismissAlarm
    \/ initialize
    \/ tick
    \/ deliver
    \/ restart

Spec == Init /\ [][Next]_vars

\* alarms are added, the clock advances and triggers fire; the app keeps
\* running: a step is taken as long as one is possible
FireNext ==
    \/ initialize
    \/ addAlarm
    \/ tick
    \/ deliver

FireSpec == Init /\ [][FireNext]_vars /\ WF_vars(FireNext)

\* ----------------------------------------------------- ring screen actions
\* a value of Date.now() later within the minute t: a token that is no minute
\* of the clock
laterInMinute(t) == MaxNow + 1 + t

\* alarm.taskType && alarm.taskType !== 'none' for the alarm with this id:
\* AlarmSchema admits 'math' and 'riddle' only
taskRequired(id) == TRUE

\* what a snooze request of the user runs: snoozeAlarm of the store, then
\* notificationService.scheduleSnooze once more, its identifier drawn from
\* Date.now() again (stamp)
userSnoozeResult(st, alarm, minutes, stamp, t, perm, notifOk) ==
    LET a == snoozeAlarmResult(st, alarm.id, minutes, t, perm, notifOk)
        b == scheduleSnooze(a.scheduled, alarm.id, t + minutes, alarm, stamp,
                            perm, notifOk)
    IN  [ok |-> b.ok, st |-> IF b.ok THEN [a EXCEPT !.scheduled = b.sched] ELSE a]

\* the route /alarm/ring?alarmId=id is opened
openRing ==
    \E id \in KnownIds \cup {UnknownId} :
        /\ ~ring.mounted
        /\ ring' = findAlarmEffect(
                       [NoRing EXCEPT !.mounted = TRUE, !.alarmId = id,
                                      !.timer = ring.timer], alarms)
        /\ last' = [op |-> "openRing", id |-> id, fired |-> justFired(id)]
        /\ UNCHANGED <<conc, snd, now, alarms, isLoading, error, nextAlarm, stored, scheduled,
                       hasPermission, snoozeEnabled,
                       rAlarm, rNow, rNext, rUpcoming, rDone>>

\* a notification arrives whose data carry type and alarmId
receive ==
    \E type \in {"alarm", NoType}, alarmId \in KnownIds \cup {UnknownId} :
        /\ ring' = notificationReceived(ring, type, alarmId, alarms)
        /\ last' = [op |-> "receive", id |-> alarmId, fired |-> FALSE]
        /\ UNCHANGED <<conc, snd, now, alarms, isLoading, error, nextAlarm, stored, scheduled,
                       hasPermission, snoozeEnabled,
                       rAlarm, rNow, rNext, rUpcoming, rDone>>

\* the Snooze button
handleSnooze ==
    \E minutes \in SnoozeMinutes, stamp \in {now, laterInMinute(now)},
       notifOk \in NotifOutcomes :
        /\ ring.mounted /\ ring.alarm # <<>> /\ snoozeEnabled
        /\ LET r == userSnoozeResult(St, ring.alarm[1], minutes, stamp, now,
                                     hasPermission, notifOk)
           IN  commitWith(r.st,
                          IF r.ok THEN unmountRing(ring) ELSE stopAlarm(ring),
                          "handleSnooze", ring.alarm[1].id)

\* handleDismiss as the closure holding taskCompleted = completed runs it on
\* alarm id
handleDismissResult(st, r, id, completed, t, perm, storeOk, notifOk) ==
    IF taskRequired(id) /\ ~completed
    THEN [st |-> st, ring |-> IF r.mounted THEN [r EXCEPT !.showTask = TRUE] ELSE r]
    ELSE [st |-> dismissAlarmResult(st, id, t, perm, storeOk, notifOk),
          ring |-> unmountRing(r)]

\* the Dismiss button
handleDismiss ==
    \E storeOk \in StoreOutcomes, notifOk \in NotifOutcomes :
        /\ ring.mounted /\ ring.alarm # <<>>
        /\ LET r == handleDismissResult(St, ring, ring.alarm[1].id,
                                        ring.taskCompleted, now, hasPermission,
                                        storeOk, notifOk)
           IN  commitWith(r.st, r.ring, "handleDismiss", ring.alarm[1].id)

\* the task screen reports a result
handleTaskComplete ==
    \E completed \in BOOLEAN :
        /\ ring.mounted /\ ring.alarm # <<>> /\ ring.showTask
        /\ ring' = IF completed
                   THEN [ring EXCEPT !.taskCompleted = TRUE, !.showTask = FALSE,
                             !.timer = <<[taskCompleted |-> ring.taskCompleted,
                                          alarmId |-> ring.alarm[1].id]>>]
                   ELSE ring
        /\ last' = [op |-> IF completed THEN "taskSolved" ELSE "taskFailed",
                    id |-> ring.alarm[1].id, fired |-> FALSE]
        /\ UNCHANGED <<conc, snd, now, alarms, isLoading, error, nextAlarm, stored, scheduled,
                       hasPermission, snoozeEnabled,
                       rAlarm, rNow, rNext, rUpcoming, rDone>>

\* the setTimeout of handleTaskComplete fires
dismissTimer ==
    \E storeOk \in StoreOutcomes, notifOk \in NotifOutcomes :
        /\ ring.timer # <<>>
        /\ LET r == handleDismissResult(St, [ring EXCEPT !.timer = <<>>],
                                        ring.timer[1].alarmId,
                                        ring.timer[1].taskCompleted, now,
                                        hasPermission, storeOk, notifOk)
           IN  commitWith(r.st, r.ring, "dismissTimer", ring.timer[1].alarmId)

\* the notification response listener is registered once, by the first render
\* of NotificationsProvider: the alarms and settings.snoozeEnabled it reads
\* are those of that render, the initial state of the two stores
listenerAlarms == <<>>
listenerSnoozeEnabled == TRUE

\* the listener, for a response whose notification carries data.type and
\* data.alarmId; dismissAlarm and snoozeAlarm are the store's own functions
notificationResponseResult(st, type, alarmId, action, minutes, stamp, t, perm, storeOk, notifOk) ==
    IF type # "alarm" THEN st
    ELSE IF action = "snooze"
    THEN IF listenerSnoozeEnabled /\ findIndex(listenerAlarms, alarmId) # 0
         THEN userSnoozeResult(st, listenerAlarms[findIndex(listenerAlarms, alarmId)],
                               minutes, stamp, t, perm, notifOk).st
         ELSE st
    ELSE IF action = "dismiss"
    THEN dismissAlarmResult(st, alarmId, t, perm, storeOk, notifOk)
    ELSE st

notificationResponse ==
    \E type \in {"alarm", "none"}, alarmId \in KnownIds,
       action \in {"snooze", "dismiss"}, minutes \in SnoozeMinutes,
       stamp \in {now, laterInMinute(now)},
       storeOk \in StoreOutcomes, notifOk \in NotifOutcomes :
        commit(notificationResponseResult(St, type, alarmId, action,
                                          minutes, stamp, now, hasPermission,
                                          storeOk, notifOk),
               action, alarmId)

\* updateSnoozeSettings(enabled, minutes)
setSnoozeEnabled ==
    \E enabled \in BOOLEAN :
        /\ snoozeEnabled' = enabled
        /\ last' = [op |-> "setSnoozeEnabled", id |-> <<>>, fired |-> FALSE]
        /\ UNCHANGED <<conc, snd, now, alarms, isLoading, error, nextAlarm, stored, scheduled,
                       hasPermission, ring, rAlarm, rNow, rNext, rUpcoming, rDone>>

RingNext ==
    \/ initialize
    \/ addAlarm
    \/ deleteAlarm
    \/ loadAlarms
    \/ openRing
    \/ receive
    \/ handleSnooze
    \/ handleDismiss
    \/ handleTaskComplete
    \/ dismissTimer
    \/ notificationResponse
    \/ setSnoozeEnabled

RingSpec == Init /\ [][RingNext]_vars

\* ------------------------------------------ the store with failing services
\* AsyncStorage.setItem and the expo-notifications calls may reject
FaultOutcomes == BOOLEAN

addAlarmFaulty ==
    \E alarmData \in AlarmInputs, rand \in RandStrings,
       storeOk \in FaultOutcomes, notifOk \in FaultOutcomes :
        addAlarmWith(alarmData, rand, storeOk, notifOk)

updateAlarmFaulty ==
    \E id \in KnownIds \cup {UnknownId}, updates \in UpdateInputs,
       storeOk \in FaultOutcomes, notifOk \in FaultOutcomes :
        updateAlarmWith(id, updates, storeOk, notifOk)

deleteAlarmFaulty ==
    \E id \in KnownIds \cup {UnknownId},
       storeOk \in FaultOutcomes, notifOk \in FaultOutcomes :
        deleteAlarmWith(id, storeOk, notifOk)

toggleAlarmFaulty ==
    \E id \in KnownIds \cup {UnknownId},
       storeOk \in FaultOutcomes, notifOk \in FaultOutcomes :
        commit(toggleAlarmResult(St, id, now, hasPermission, storeOk, notifOk),
               "toggleAlarm", id)

FaultNext ==
    \/ initialize
    \/ loadAlarms
    \/ addAlarmFaulty
    \/ updateAlarmFaulty
    \/ deleteAlarmFaulty
    \/ toggleAlarmFaulty

FaultSpec == Init /\ [][FaultNext]_vars

\* soundService.playAlarm(alarm) is called
soundPlayAlarm ==
    \E c \in 1..MaxCalls :
        /\ snd.calls[c].op = "idle"
        /\ Cardinality(freeSounds(snd)) > Cardinality(creating(snd))
        /\ snd' = soundStep([snd EXCEPT !.calls[c] = [op |-> "play", pc |-> "stop0",
                                                      mine |-> NoSound],
                                        !.stopped = FALSE], c)
        /\ last' = [op |-> "playAlarm", id |-> <<>>, fired |-> FALSE]
        /\ UNCHANGED <<conc, now, alarms, isLoading, error, nextAlarm, stored, scheduled,
                       hasPermission, snoozeEnabled, ring,
                       rAlarm, rNow, rNext, rUpcoming, rDone>>

\* soundService.stopAlarm() is called
soundStopAlarm ==
    \E c \in 1..MaxCalls :
        /\ snd.calls[c].op = "idle"
        /\ snd' = soundStep([snd EXCEPT !.calls[c] = [op |-> "stop", pc |-> "stop0",
                                                      mine |-> NoSound]], c)
        /\ last' = [op |-> "stopAlarm", id |-> <<>>, fired |-> FALSE]
        /\ UNCHANGED <<conc, now, alarms, isLoading, error, nextAlarm, stored, scheduled,
                       hasPermission, snoozeEnabled, ring,
                       rAlarm, rNow, rNext, rUpcoming, rDone>>

\* the promise a call awaits settles and the call runs on
soundResume ==
    \E c \in 1..MaxCalls :
        /\ snd.calls[c].op # "idle"
        /\ snd' = soundStep(snd, c)
        /\ last' = [op |-> "resume", id |-> <<>>, fired |-> FALSE]
        /\ UNCHANGED <<conc, now, alarms, isLoading, error, nextAlarm, stored, scheduled,
                       hasPermission, snoozeEnabled, ring,
                       rAlarm, rNow, rNext, rUpcoming, rDone>>

SoundNext ==
    \/ soundPlayAlarm
    \/ soundStopAlarm
    \/ soundResume

SoundSpec == Init /\ [][SoundNext]_vars

\* ------------------------------------------------ the store with two alarms
MaxPair == 2
PairInputs ==
    {[time |-> <<0, 1>>, enabled |-> b, repeat |-> {}, volume |-> DefaultVolume] :
        b \in BOOLEAN}

\* the updates of the edit screen carry every field of the alarm, its id too
\* (handleSave(updatedAlarm: Alarm)); Partial<Alarm> admits any id
IdPatches == {[id |-> y] : y \in KnownIds}

addAlarmPair ==
    \E alarmData \in PairInputs, rand \in RandStrings :
        /\ Len(alarms) < MaxPair
        /\ Len(stored) < MaxPair
        /\ commit(addAlarmResult(St, alarmData, rand, now, hasPermission, TRUE, TRUE),
                  "addAlarm", makeAlarmId(now, rand))

updateAlarmPair ==
    \E id \in KnownIds, updates \in IdPatches \cup {[enabled |-> TRUE]} :
        updateAlarmWith(id, updates, TRUE, TRUE)

PairNext ==
    \/ initialize
    \/ addAlarmPair
    \/ updateAlarmPair
    \/ toggleAlarm
    \/ deleteAlarm
    \/ loadAlarms
    \/ tick

PairSpec == Init /\ [][PairNext]_vars

\* ---------------------------------------------- the store, calls overlapping
idsInFlight ==
    {conc.calls[c].alarm.id : c \in {d \in 1..MaxOps : conc.calls[d].op = "addAlarm"}}

\* the call record a handler that starts takes: the first one not in use
freeCall ==
    IF \A c \in 1..MaxOps : conc.calls[c].op # "idle" THEN 0
    ELSE CHOOSE c \in 1..MaxOps :
             /\ conc.calls[c].op = "idle"
             /\ \A d \in 1..(c - 1) : conc.calls[d].op # "idle"

\* addAlarm up to its first await: the id, the new alarm, AlarmSchema.parse,
\* and storage.addAlarm up to AsyncStorage.getItem
concAddAlarm ==
    \E c \in 1..MaxOps, rand \in RandStrings :
        LET id == makeAlarmId(now, rand)
            newAlarm == [id |-> id, time |-> <<0, 1>>, enabled |-> TRUE,
                         repeat |-> {}, volume |-> DefaultVolume]
        IN  /\ c = freeCall
            /\ conc.starts < MaxStarts
            /\ Len(alarms) + Cardinality(idsInFlight) < MaxPair
            /\ id \notin idsOf(alarms) \cup idsOf(stored) \cup idsInFlight
            /\ conc' = [conc EXCEPT
                          !.calls[c] = [IdleOp EXCEPT !.op = "addAlarm", !.pc = "read",
                                                      !.alarm = newAlarm],
                          !.queue = Append(@, c),
                          !.starts = @ + 1]
            /\ isLoading' = TRUE
            /\ error' = NoError
            /\ last' = [op |-> "addAlarm", id |-> id, fired |-> FALSE]
            /\ UNCHANGED <<snd, now, alarms, nextAlarm, stored, scheduled, hasPermission,
                           snoozeEnabled, ring, rAlarm, rNow, rNext, rUpcoming, rDone>>

\* toggleAlarm(id) and the updateAlarm it calls, up to the first await:
\* currentAlarms, alarmIndex, the merged alarm, and storage.updateAlarm up to
\* AsyncStorage.getItem
concToggleAlarm ==
    \E c \in 1..MaxOps, id \in idsOf(alarms) :
        LET alarmIndex == findIndex(alarms, id)
            updatedAlarm == merge(alarms[alarmIndex],
                                  [enabled |-> ~alarms[alarmIndex].enabled])
        IN  /\ c = freeCall
            /\ conc.starts < MaxStarts
            /\ conc' = [conc EXCEPT
                          !.calls[c] = [IdleOp EXCEPT !.op = "toggleAlarm", !.pc = "read",
                                                      !.alarm = updatedAlarm,
                                                      !.alarmIndex = alarmIndex,
                                                      !.currentAlarms = alarms],
                          !.queue = Append(@, c),
                          !.starts = @ + 1]
            /\ isLoading' = TRUE
            /\ error' = NoError
            /\ last' = [op |-> "toggleAlarm", id |-> id, fired |-> FALSE]
            /\ UNCHANGED <<snd, now, alarms, nextAlarm, stored, scheduled, hasPermission,
                           snoozeEnabled, ring, rAlarm, rNow, rNext, rUpcoming, rDone>>

\* AsyncStorage serves the request at the head of its queue.  A getItem gives
\* the stored list to storage.addAlarm / storage.updateAlarm, which builds the
\* list to write and issues the setItem; a setItem replaces the stored list.
concStorage ==
    /\ conc.queue # <<>>
    /\ LET c == Head(conc.queue)
           call == conc.calls[c]
           index == findIndex(stored, call.alarm.id)
       IN  /\ last' = [op |-> "storage", id |-> call.alarm.id, fired |-> FALSE]
           /\ IF call.pc = "write"
              THEN /\ stored' = call.value
                   /\ conc' = [conc EXCEPT !.calls[c].pc = "notify", !.queue = Tail(@)]
                   /\ UNCHANGED <<isLoading, error>>
              ELSE IF call.op = "toggleAlarm" /\ index = 0
              THEN /\ conc' = [conc EXCEPT !.calls[c] = IdleOp, !.queue = Tail(@)]
                   /\ error' = "Alarm not found"
                   /\ isLoading' = FALSE
                   /\ UNCHANGED stored
              ELSE /\ conc' = [conc EXCEPT
                                 !.calls[c].pc = "write",
                                 !.calls[c].value =
                                     IF call.op = "addAlarm"
                                     THEN Append(stored, call.alarm)
                                     ELSE [stored EXCEPT ![index] = call.alarm],
                                 !.queue = Append(Tail(@), c)]
                   /\ UNCHANGED <<stored, isLoading, error>>
    /\ UNCHANGED <<snd, now, alarms, nextAlarm, scheduled, hasPermission,
                   snoozeEnabled, ring, rAlarm, rNow, rNext, rUpcoming, rDone>>

\* the rest of the handler, the Store written: the notifications are
\* cancelled and scheduled and the in-memory list is set
concNotify ==
    \E c \in 1..MaxOps :
        LET call == conc.calls[c]
            id == call.alarm.id
            cancelled == IF call.op = "toggleAlarm"
                         THEN cancelAlarm(scheduled, id, TRUE).sched
                         ELSE scheduled
            newAlarms == IF call.op = "addAlarm"
                         THEN Append(alarms, call.alarm)
                         ELSE [call.currentAlarms EXCEPT ![call.alarmIndex] = call.alarm]
        IN  /\ call.pc = "notify"
            /\ scheduled' = IF call.alarm.enabled
                            THEN scheduleAlarm(cancelled, call.alarm, now,
                                               hasPermission, TRUE).sched
                            ELSE cancelled
            /\ alarms' = newAlarms
            /\ isLoading' = FALSE
            /\ nextAlarm' = refreshNextAlarm(newAlarms, now)
            /\ ring' = findAlarmEffect(ring, newAlarms)
            /\ conc' = [conc EXCEPT
                          !.calls[c] = IdleOp,
                          !.added = IF call.op = "addAlarm" THEN @ \cup {id} ELSE @,
                          !.flips = IF call.op # "toggleAlarm" THEN @
                                    ELSE IF id \in @ THEN @ \ {id} ELSE @ \cup {id}]
            /\ last' = [op |-> "notify", id |-> id, fired |-> FALSE]
            /\ UNCHANGED <<snd, now, error, stored, hasPermission, snoozeEnabled,
                           rAlarm, rNow, rNext, rUpcoming, rDone>>

ConcNext ==
    \/ initialize
    \/ concAddAlarm
    \/ concToggleAlarm
    \/ concStorage
    \/ concNotify

ConcSpec == Init /\ [][ConcNext]_vars

\* ------------------------------------------- StorageService on its own
ReadOutcomes == BOOLEAN

storageWrite(r, op, id) ==
    /\ stored' = r.list
    /\ last' = [op |-> op, id |-> id, fired |-> FALSE]
    /\ UNCHANGED <<conc, snd, now, alarms, isLoading, error, nextAlarm, scheduled,
                   hasPermission, snoozeEnabled, ring, rAlarm, rNow, rNext,
                   rUpcoming, rDone>>

storeAdd ==
    \E alarmData \in PairInputs, rand \in RandStrings, readOk \in ReadOutcomes :
        LET id == makeAlarmId(now, rand)
            alarm == [id |-> id, time |-> alarmData.time, enabled |-> alarmData.enabled,
                      repeat |-> alarmData.repeat, volume |-> alarmData.volume]
        IN  /\ Len(stored) < MaxPair
            /\ id \notin idsOf(stored)
            /\ storageWrite(storageAddAlarmRead(stored, alarm, readOk, TRUE),
                            "storage.addAlarm", id)

storeUpdate ==
    \E k \in 1..Len(stored), updates \in {[enabled |-> b] : b \in BOOLEAN},
       readOk \in ReadOutcomes :
        storageWrite(storageUpdateAlarmRead(stored, merge(stored[k], updates),
                                            readOk, TRUE),
                     "storage.updateAlarm", stored[k].id)

storeDelete ==
    \E id \in idsOf(stored) \cup {UnknownId}, readOk \in ReadOutcomes :
        storageWrite(storageDeleteAlarmRead(stored, id, readOk, TRUE),
                     "storage.deleteAlarm", id)

StoreNext ==
    \/ storeAdd
    \/ storeUpdate
    \/ storeDelete
    \/ tick

StoreSpec == Init /\ [][StoreNext]_vars

\* ------------------------------------------------- the resolver on its own
\* getNextAlarmTime and getUpcomingAlarmTimes applied to every alarm and
\* every instant of a week
ResolverAlarms ==
    [id : {<<0>>}, time : ValidTimes, enabled : BOOLEAN, repeat : SUBSET Weekdays,
     volume : {DefaultVolume}]

ResolverInit ==
    /\ now = 0
    /\ alarms = <<>>
    /\ isLoading = FALSE
    /\ error = NoError
    /\ nextAlarm = <<>>
    /\ stored = <<>>
    /\ scheduled = {}
    /\ hasPermission = FALSE
    /\ snoozeEnabled = TRUE
    /\ ring = NoRing
    /\ snd = SoundInit
    /\ conc = ConcInit
    /\ last = [op |-> "init", id |-> <<>>, fired |-> FALSE]
    /\ rAlarm \in ResolverAlarms
    /\ rNow \in 0..(7 * MinutesPerDay - 1)
    /\ rNext = NULL
    /\ rUpcoming = <<>>
    /\ rDone = FALSE

resolve ==
    /\ ~rDone
    /\ rNext' = getNextAlarmTime(rAlarm, rNow)
    /\ rUpcoming' = getUpcomingAlarmTimes(rAlarm, rNow)
    /\ rDone' = TRUE
    /\ UNCHANGED <<conc, snd, now, alarms, isLoading, error, nextAlarm, stored, scheduled,
                   hasPermission, last, snoozeEnabled, ring, rAlarm, rNow>>

ResolverNext == resolve

ResolverSpec == ResolverInit /\ [][ResolverNext]_vars


\* ------------------------------------------------ properties of the resolver
\* the minute of the day of the alarm's "HH:MM"
minuteOfDay(alarm) == alarm.time[1] * MinutesPerHour + alarm.time[2]

\* instant x falls at the alarm's time of day
atAlarmTime(alarm, x) == x % MinutesPerDay = minuteOfDay(alarm)

\* instant x falls on a weekday flagged in the alarm's mask
onFlaggedDay(alarm, x) == ((x \div MinutesPerDay) % 7) \in alarm.repeat

\* C2: for an enabled alarm with an empty repeat mask, getNextAlarmTime is
\* today at T when now is strictly before today at T, and tomorrow at T
\* otherwise (now equal to today at T gives tomorrow).
C2_OneTimeNext ==
    (rDone /\ rAlarm.enabled /\ rAlarm.repeat = {}) =>
        LET todayAtT == (rNow \div MinutesPerDay) * MinutesPerDay + minuteOfDay(rAlarm)
        IN  rNext = IF rNow < todayAtT THEN todayAtT ELSE todayAtT + MinutesPerDay

\* C2 at the boundary: now is exactly today at T and the answer is tomorrow at T
C2_Witness ==
    /\ rDone /\ rAlarm.enabled /\ rAlarm.repeat = {}
    /\ rNow % MinutesPerDay = minuteOfDay(rAlarm)
    /\ rNext = rNow + MinutesPerDay

\* C3: for an enabled alarm with a non-empty repeat mask, getNextAlarmTime is
\* not null and is the earliest instant strictly after now at the alarm's
\* time on a flagged weekday; it is at most 7 days after now, and at most
\* 24 hours after now when all seven days are flagged.
C3_RepeatingNext ==
    (rDone /\ rAlarm.enabled /\ rAlarm.repeat # {}) =>
        /\ rNext # NULL
        /\ rNext > rNow
        /\ atAlarmTime(rAlarm, rNext)
        /\ onFlaggedDay(rAlarm, rNext)
        /\ \A x \in (rNow + 1)..(rNext - 1) :
               ~(atAlarmTime(rAlarm, x) /\ onFlaggedDay(rAlarm, x))
        /\ rNext <= rNow + 7 * MinutesPerDay
        /\ (rAlarm.repeat = Weekdays => rNext <= rNow + MinutesPerDay)

\* C3, the scenario of the mask {mon, wed, fri}: now is a Tuesday after the
\* alarm's time of day and the answer is Wednesday at the alarm's time
C3_Witness ==
    /\ rDone /\ rAlarm.enabled /\ rAlarm.repeat = {1, 3, 5}
    /\ rNow \div MinutesPerDay = 2
    /\ rNow % MinutesPerDay > minuteOfDay(rAlarm)
    /\ rNext = 3 * MinutesPerDay + minuteOfDay(rAlarm)

\* C4: the sequence of getUpcomingAlarmTimes is strictly ascending, every
\* element is strictly after now, for a repeating alarm every element falls
\* on a flagged weekday within the 7-day horizon, and for a disabled alarm
\* the sequence is empty.
C4_Upcoming ==
    rDone =>
        /\ \A i, j \in 1..Len(rUpcoming) : i < j => rUpcoming[i] < rUpcoming[j]
        /\ \A i \in 1..Len(rUpcoming) : rUpcoming[i] > rNow
        /\ rAlarm.repeat # {} =>
               \A i \in 1..Len(rUpcoming) :
                   /\ onFlaggedDay(rAlarm, rUpcoming[i])
                   /\ atAlarmTime(rAlarm, rUpcoming[i])
                   /\ rUpcoming[i] <= rNow + 7 * MinutesPerDay
        /\ ~rAlarm.enabled => rUpcoming = <<>>

\* C4 where it matters: a repeating alarm flagged today whose time of day has
\* passed, with several occurrences ahead and today's left out
C4_Witness ==
    /\ rDone /\ rAlarm.enabled
    /\ (rNow \div MinutesPerDay) % 7 \in rAlarm.repeat
    /\ rNow % MinutesPerDay >= minuteOfDay(rAlarm)
    /\ Len(rUpcoming) >= 2
    /\ rUpcoming[1] > rNow


\* --------------------------------------------- properties of the alarm store
\* the operations of useAlarmStore
StoreOps ==
    {"loadAlarms", "addAlarm", "updateAlarm", "deleteAlarm", "toggleAlarm",
     "snoozeAlarm", "dismissAlarm"}

\* the regular triggers an arming of the alarm at instant t programs: one per
\* upcoming instant, identified by (alarm.id, index)
armedFor(alarm, t) ==
    LET times == getUpcomingAlarmTimes(alarm, t)
    IN  {[identifier |-> getNotificationId(alarm.id, k - 1), date |-> times[k],
          alarmId |-> alarm.id, isSnooze |-> FALSE] : k \in 1..Len(times)}

\* the regular triggers armed for alarm id
regularOf(sched, id) == {n \in sched : n.alarmId = id /\ ~n.isSnooze}

\* the alarm the store's alarms.find(a => a.id === id) answers
theAlarm(id) == alarms[findIndex(alarms, id)]

\* C1: in every state reached by completed store operations no trigger,
\* regular or snooze, is armed for an alarm whose enabled flag is false.
C1_NoTriggerWhenDisabled ==
    last.op \in StoreOps =>
        \A k \in 1..Len(alarms) :
            ~alarms[k].enabled => ~\E n \in scheduled : n.alarmId = alarms[k].id

\* C5: after scheduleAlarm has completed for an enabled alarm (by addAlarm,
\* updateAlarm or toggleAlarm), the regular triggers armed for the alarm are
\* exactly one per instant of getUpcomingAlarmTimes, identified by
\* (alarm.id, index), with nothing left from an earlier arming; a one-time
\* alarm has exactly one.
C5_ArmedExactlyUpcoming ==
    (/\ last.op \in {"addAlarm", "updateAlarm", "toggleAlarm"}
     /\ error = NoError
     /\ findIndex(alarms, last.id) # 0
     /\ theAlarm(last.id).enabled) =>
        /\ regularOf(scheduled, last.id) = armedFor(theAlarm(last.id), now)
        /\ theAlarm(last.id).repeat = {} =>
               Cardinality(regularOf(scheduled, last.id)) = 1

\* C6: reconcileAlarms applied again to the list and the clock it has just
\* been applied to leaves the armed triggers as they are.
C6_ReconcileIdempotent ==
    last.op = "loadAlarms" =>
        \A notifOk \in NotifOutcomes :
            reconcileAlarms(scheduled, alarms, now, hasPermission, notifOk) = scheduled

\* C6 where reconciling does something: permission is granted and an enabled
\* alarm of the list has its triggers armed
C6_Witness ==
    /\ last.op = "loadAlarms"
    /\ hasPermission
    /\ \E k \in 1..Len(alarms) :
           /\ alarms[k].enabled
           /\ armedFor(alarms[k], now) # {}
           /\ armedFor(alarms[k], now) \subseteq scheduled

\* C7: after reconcileAlarms every armed trigger belongs to an enabled alarm
\* of the list, and every enabled alarm of the list is armed with its
\* upcoming fire times.
C7_ReconcileArmsEnabled ==
    last.op = "loadAlarms" =>
        /\ \A n \in scheduled :
               \E k \in 1..Len(alarms) : alarms[k].enabled /\ alarms[k].id = n.alarmId
        /\ \A k \in 1..Len(alarms) :
               alarms[k].enabled => armedFor(alarms[k], now) \subseteq scheduled

\* C8: after dismissAlarm(id) has completed for an existing one-time alarm,
\* the alarm is disabled in the in-memory list and in the Store, and no
\* trigger is armed for it.
C8_DismissOneTime ==
    (/\ last.op = "dismissAlarm"
     /\ error = NoError
     /\ findIndex(alarms, last.id) # 0
     /\ theAlarm(last.id).repeat = {}) =>
        /\ ~theAlarm(last.id).enabled
        /\ findIndex(stored, last.id) # 0
        /\ ~stored[findIndex(stored, last.id)].enabled
        /\ ~\E n \in scheduled : n.alarmId = last.id

\* C8 where it matters: the one-time alarm dismissed had just fired
C8_Witness ==
    /\ last.op = "dismissAlarm"
    /\ last.fired
    /\ findIndex(alarms, last.id) # 0
    /\ theAlarm(last.id).repeat = {}
    /\ ~theAlarm(last.id).enabled

\* C9: after dismissAlarm(id) has completed for an existing enabled repeating
\* alarm that has just fired, the alarm is still enabled and exactly one
\* trigger is armed for it, at the next occurrence strictly after the one
\* that fired.
C9_DismissRepeating ==
    (/\ last.op = "dismissAlarm"
     /\ last.fired
     /\ findIndex(alarms, last.id) # 0
     /\ theAlarm(last.id).repeat # {}
     /\ theAlarm(last.id).enabled) =>
        \E n \in scheduled :
            /\ {m \in scheduled : m.alarmId = last.id} = {n}
            /\ n.date > now
            /\ atAlarmTime(theAlarm(last.id), n.date)
            /\ onFlaggedDay(theAlarm(last.id), n.date)
            /\ \A x \in (now + 1)..(n.date - 1) :
                   ~(atAlarmTime(theAlarm(last.id), x) /\ onFlaggedDay(theAlarm(last.id), x))

\* C10: snoozeAlarm(id, m) at instant T on an existing alarm arms a trigger
\* at exactly T + m, and every regular trigger armed for the alarm before is
\* still armed afterwards.
C10_SnoozeArmsAtTPlusM ==
    [][\A id \in KnownIds, minutes \in SnoozeMinutes :
           (findIndex(alarms, id) # 0 /\ snoozeAlarmOf(id, minutes)) =>
               /\ \E n \in scheduled' :
                      n.alarmId = id /\ n.isSnooze /\ n.date = now + minutes
               /\ regularOf(scheduled, id) \subseteq scheduled']_vars

\* ------------------------------------------------------------ ring and snooze
\* the snooze triggers armed for alarm id
snoozeOf(sched, id) == {n \in sched : n.alarmId = id /\ n.isSnooze}

\* C11: one press of the Snooze button programs exactly one snooze trigger, and
\* a snooze trigger stays armed when the base alarm is cancelled and re-armed
\* by reconcileAlarms
C11_OneSnoozeKept ==
    [][/\ (/\ last'.op = "handleSnooze"
           /\ hasPermission
           /\ error' = NoError
           /\ snoozeOf(scheduled, last'.id) = {})
          => Cardinality(snoozeOf(scheduled', last'.id)) = 1
       /\ (last'.op = "loadAlarms" /\ error' = NoError)
          => \A n \in scheduled :
                 (/\ n.isSnooze
                  /\ findIndex(alarms', n.alarmId) # 0
                  /\ alarms'[findIndex(alarms', n.alarmId)].enabled)
                 => n \in scheduled']_vars

\* the instants after t at which a trigger is armed for alarm id
instantsOf(sched, id, t) ==
    {n.date : n \in {m \in sched : m.alarmId = id /\ m.date > t}}

\* C12: for an enabled alarm, toggleAlarm(id) twice with the clock unchanged
\* leaves armed for the alarm the instants that were armed before
C12_ToggleRoundTrip ==
    \A k \in 1..Len(alarms) :
        alarms[k].enabled =>
            LET id == alarms[k].id
                off == toggleAlarmResult(St, id, now, hasPermission, TRUE, TRUE)
                on == toggleAlarmResult(off, id, now, hasPermission, TRUE, TRUE)
            IN  instantsOf(on.scheduled, id, now) = instantsOf(scheduled, id, now)

\* C13: updateAlarm and deleteAlarm with an id that is not in the alarm list
\* end with the not-found error and leave the Store and the armed triggers as
\* they were
C13_NotFoundNoEffect ==
    [][(/\ last'.op \in {"updateAlarm", "deleteAlarm"}
        /\ findIndex(alarms, last'.id) = 0)
       => (/\ error' = "Alarm not found"
           /\ stored' = stored
           /\ scheduled' = scheduled)]_vars

\* C15: after addAlarm, updateAlarm or toggleAlarm has left an enabled alarm
\* persisted whose upcoming fire times are not armed, the store's error is set
C15_ArmFailureSurfaced ==
    (/\ last.op \in {"addAlarm", "updateAlarm", "toggleAlarm"}
     /\ findIndex(stored, last.id) # 0
     /\ stored[findIndex(stored, last.id)].enabled
     /\ ~(armedFor(stored[findIndex(stored, last.id)], now) \subseteq scheduled))
    => error # NoError

\* C20: a snooze trigger is armed for an alarm only while snoozeEnabled is
\* true and the alarm is ringing: its trigger has just been delivered, or the
\* ring screen is open on it
C20_SnoozeOnlyWhenRinging ==
    [][\A n \in scheduled' \ scheduled :
           n.isSnooze =>
               /\ snoozeEnabled
               /\ \/ justFired(n.alarmId)
                  \/ ring.mounted /\ ring.alarm # <<>> /\ ring.alarmId = n.alarmId]_vars

\* the data of an addAlarm or updateAlarm that the Alarm schema refuses: a
\* time outside HH:MM of the day, a volume outside [0, 1]
violatesSchema(data) ==
    \/ data.time[1] \notin 0..(HoursPerDay - 1)
    \/ data.time[2] \notin 0..(MinutesPerHour - 1)
    \/ data.volume \notin 0..VolumeMax

\* C14: addAlarm, and updateAlarm of an alarm of the list, with data that
\* violates the Alarm schema end with an error and leave the Store, the
\* alarm list and the armed triggers as they were
C14_InvalidRejected ==
    [][/\ \A alarmData \in AlarmInputs, rand \in RandStrings :
              (/\ last'.op = "addAlarm"
               /\ violatesSchema(alarmData)
               /\ addAlarmOf(alarmData, rand))
              => (/\ error' # NoError
                  /\ stored' = stored /\ alarms' = alarms /\ scheduled' = scheduled)
       /\ \A id \in KnownIds, updates \in UpdateInputs :
              (/\ last'.op = "updateAlarm"
               /\ findIndex(alarms, id) # 0
               /\ violatesSchema(merge(theAlarm(id), updates))
               /\ updateAlarmOf(id, updates))
              => (/\ error' # NoError
                  /\ stored' = stored /\ alarms' = alarms /\ scheduled' = scheduled)]_vars

\* C14 where there is something to keep: an updateAlarm refused by the schema
\* with an alarm persisted and triggers armed
C14_Witness ==
    /\ last.op = "updateAlarm"
    /\ error = "ZodError"
    /\ stored # <<>>
    /\ scheduled # {}

\* ------------------------------------------------------------ failing writes
\* C16: when the Store write of addAlarm, updateAlarm or deleteAlarm fails,
\* the store's error is set, the alarm list and the Store are as before the
\* operation, and no trigger is armed that was not armed before
C16_WriteFailureKeepsList ==
    [][/\ \A alarmData \in AlarmInputs, rand \in RandStrings, notifOk \in FaultOutcomes :
              (/\ last'.op = "addAlarm"
               /\ ~violatesSchema(alarmData)
               /\ addAlarmWith(alarmData, rand, FALSE, notifOk))
              => (/\ error' # NoError
                  /\ alarms' = alarms /\ stored' = stored
                  /\ scheduled' \subseteq scheduled)
       /\ \A id \in KnownIds, updates \in UpdateInputs, notifOk \in FaultOutcomes :
              (/\ last'.op = "updateAlarm"
               /\ findIndex(alarms, id) # 0
               /\ ~violatesSchema(merge(theAlarm(id), updates))
               /\ updateAlarmWith(id, updates, FALSE, notifOk))
              => (/\ error' # NoError
                  /\ alarms' = alarms /\ stored' = stored
                  /\ scheduled' \subseteq scheduled)
       /\ \A id \in KnownIds :
              (/\ last'.op = "deleteAlarm"
               /\ deleteAlarmWith(id, FALSE, TRUE))
              => (/\ error' # NoError
                  /\ alarms' = alarms /\ stored' = stored
                  /\ scheduled' \subseteq scheduled)]_vars

\* C16 where the failed write is a deleteAlarm of an alarm of the list
C16_Witness ==
    /\ last.op = "deleteAlarm"
    /\ error = "Failed to save @alarm-buddy/alarms"
    /\ findIndex(alarms, last.id) # 0
    /\ findIndex(stored, last.id) # 0

\* ------------------------------------------------------------- ringing session
\* the ring screen is open on alarm id with the task shown
awaitingTask(r, id) == r.mounted /\ r.alarm # <<>> /\ r.alarmId = id /\ r.showTask

taskDone(r, id) == r.mounted /\ r.alarmId = id /\ r.taskCompleted

\* C18: a dismiss request for an alarm of the list whose task has not been
\* completed in the open ringing session, from the Dismiss button, from the
\* timer of handleTaskComplete or from the notification 'dismiss' action,
\* leaves the alarm, its triggers and its sound as they are
C18_NoDismissBeforeTask ==
    [][(/\ last'.op \in {"handleDismiss", "dismissTimer", "dismiss"}
        /\ findIndex(alarms, last'.id) # 0
        /\ taskRequired(last'.id)
        /\ ~taskDone(ring, last'.id))
       => (/\ alarms' = alarms /\ stored' = stored /\ scheduled' = scheduled
           /\ ring'.playing = ring.playing /\ ring'.mounted = ring.mounted)]_vars

\* C19: when the timer started by a successful task result fires in the
\* session whose task is completed, the alarm is dismissed: the screen closes
\* with sound and vibration stopped and no task shown; a failed task result
\* leaves the session as it is, task shown and alarm ringing
C19_TaskResult ==
    [][/\ (last'.op = "dismissTimer" /\ taskDone(ring, last'.id))
          => (~ring'.mounted /\ ~ring'.showTask /\ ~ring'.playing /\ ~ring'.vibrating)
       /\ last'.op = "taskFailed"
          => (/\ awaitingTask(ring', last'.id)
              /\ ring'.playing = ring.playing /\ ring'.vibrating = ring.vibrating
              /\ scheduled' = scheduled /\ alarms' = alarms)]_vars

\* ------------------------------------------------------------------- firing
\* the ids addAlarm can give an alarm
AllIds == {makeAlarmId(t, rand) : t \in 0..MaxNow, rand \in RandStrings}

\* a trigger of alarm id has just fired, and the alarm is in the list, enabled
firedEnabled(id) ==
    /\ last.op = "deliver" /\ last.id = id
    /\ findIndex(alarms, id) # 0
    /\ theAlarm(id).enabled

\* C21: whenever a trigger has fired for an alarm of the list that is enabled,
\* the ring screen is eventually open on that alarm with sound and vibration
\* started
C21_FiredRings ==
    \A id \in AllIds :
        firedEnabled(id) ~>
            (ring.mounted /\ ring.alarmId = id /\ ring.playing /\ ring.vibrating)

\* C22: a notification received for an alarm that is no longer in the list,
\* or is in the list with enabled = false, starts no ringing session: the
\* ring screen stays closed, no sound or vibration starts, the store's error
\* is as it was
C22_NoSessionForGoneAlarm ==
    [][(/\ last'.op = "receive"
        /\ ~ring.mounted
        /\ \/ findIndex(alarms, last'.id) = 0
           \/ ~theAlarm(last'.id).enabled)
       => (/\ ~ring'.mounted /\ ~ring'.playing /\ ~ring'.vibrating
           /\ error' = error)]_vars

\* -------------------------------------------------------------------- sound
\* the Audio.Sound instances that are playing
playingSounds == {i \in 1..MaxSounds : snd.inst[i] = "playing"}

\* C23: at most one Audio.Sound instance is playing, under every interleaving
\* of playAlarm and stopAlarm calls
C23_OneSoundPlaying == Cardinality(playingSounds) <= 1

\* C30: once a stopAlarm call has completed, no playAlarm has been called
\* since, and no call is in flight any more, no sound is playing and the
\* service holds no sound: isPlaying = false, sound = null
C30_StoppedIsSilent ==
    (snd.stopped /\ \A c \in 1..MaxCalls : snd.calls[c].op = "idle")
    => (playingSounds = {} /\ snd.sound = NoSound /\ ~snd.isPlaying)

\* ---------------------------------------------------------------------- C24
distinctIds(list) == \A i, j \in 1..Len(list) : list[i].id = list[j].id => i = j
othersKept(before, after, id) ==
    \A k \in 1..Len(before) :
        before[k].id # id => (k <= Len(after) /\ after[k] = before[k])

\* C24: starting from lists with one record per id, an addAlarm that generated
\* an unused id, an updateAlarm (whatever its patch), a toggleAlarm and a
\* deleteAlarm leave one record per id in the Store list and in the in-memory
\* list; an updateAlarm of X keeps the ids of both lists and every record of
\* an alarm other than X.
C24_OneRecordPerId ==
    [][(/\ last'.op \in {"addAlarm", "updateAlarm", "toggleAlarm", "deleteAlarm"}
        /\ distinctIds(alarms) /\ distinctIds(stored)
        /\ (last'.op = "addAlarm" => last'.id \notin idsOf(alarms) \cup idsOf(stored)))
       => (/\ distinctIds(alarms') /\ distinctIds(stored')
           /\ (last'.op = "updateAlarm"
                 => /\ idsOf(alarms') = idsOf(alarms)
                    /\ idsOf(stored') = idsOf(stored)
                    /\ othersKept(alarms, alarms', last'.id)
                    /\ othersKept(stored, stored', last'.id)))]_vars

\* ---------------------------------------------------------------------- C25
\* C25: when addAlarm, updateAlarm, toggleAlarm or deleteAlarm, started with the
\* in-memory list equal to the Store list, has written the Store, the
\* in-memory list equals the Store list once the handler has run to its end,
\* whether the scheduling step that follows the write succeeded or failed.
C25_MemoryFollowsStore ==
    [][(/\ last'.op \in {"addAlarm", "updateAlarm", "toggleAlarm", "deleteAlarm"}
        /\ alarms = stored
        /\ stored' # stored)
       => alarms' = stored']_vars

\* ---------------------------------------------------------------------- C26
quiescent == \A c \in 1..MaxOps : conc.calls[c].op = "idle"
reflects(list) ==
    /\ conc.added \subseteq idsOf(list)
    /\ \A k \in 1..Len(list) : list[k].enabled = (list[k].id \notin conc.flips)

\* C26: once every overlapping addAlarm and toggleAlarm call has run to its
\* end, the Store list and the in-memory list hold every alarm whose addAlarm
\* completed, each enabled unless it was toggled an odd number of times by
\* toggleAlarm calls that completed.
C26_MutationsSerialized == quiescent => (reflects(stored) /\ reflects(alarms))

\* ---------------------------------------------------------------------- C27
\* no notification is due and waiting to be delivered
settled == \A n \in scheduled : n.date > now

\* the alarm has a trigger armed, the earliest at getNextAlarmTime, which is
\* the first of its getUpcomingAlarmTimes
armedAtNext(alarm, sched, t) ==
    LET own == {n \in sched : n.alarmId = alarm.id}
        upcoming == getUpcomingAlarmTimes(alarm, t)
    IN  /\ own # {}
        /\ \E n \in own : /\ n.date = getNextAlarmTime(alarm, t)
                          /\ \A m \in own : m.date >= n.date
        /\ upcoming # <<>>
        /\ upcoming[1] = getNextAlarmTime(alarm, t)

\* C27: with permission granted and no notification waiting to be delivered,
\* after addAlarm, updateAlarm, toggleAlarm, dismissAlarm, loadAlarms, a minute
\* passing or a trigger firing, every enabled alarm has a trigger armed, the
\* earliest one at getNextAlarmTime(alarm, now), and getUpcomingAlarmTimes of
\* it is not empty and starts with getNextAlarmTime.
C27_EnabledAlwaysArmed ==
    (/\ hasPermission
     /\ settled
     /\ last.op \in {"addAlarm", "updateAlarm", "toggleAlarm", "dismissAlarm",
                     "loadAlarms", "tick", "deliver"}) =>
        \A k \in 1..Len(alarms) :
            alarms[k].enabled => armedAtNext(alarms[k], scheduled, now)

\* ---------------------------------------------------------------------- C28
\* C28: cancelAlarm(A), for an alarm A of the list, cancels no trigger armed
\* for an alarm with another id, and the orphan cleanup of reconcileAlarms
\* cancels no trigger of an enabled alarm.
C28_CancelOnlyOwn ==
    /\ \A a \in idsOf(alarms) :
           \A n \in scheduled :
               n.alarmId # a => n \in cancelAlarm(scheduled, a, TRUE).sched
    /\ \A n \in scheduled :
           (\E k \in 1..Len(alarms) : alarms[k].id = n.alarmId /\ alarms[k].enabled)
               => n \notin notificationsToCancel(scheduled, alarms)

\* ---------------------------------------------------------------------- C29
\* C29: the list that addAlarm, updateAlarm or deleteAlarm of StorageService
\* leaves stored contains, unaltered, every alarm stored before other than
\* the one the call was given, also when the read of the stored list failed.
C29_OthersKeptInStore ==
    [][last'.op \in {"storage.addAlarm", "storage.updateAlarm", "storage.deleteAlarm"}
       => \A k \in 1..Len(stored) :
              stored[k].id # last'.id
                  => \E j \in 1..Len(stored') : stored'[j] = stored[k]]_vars

====
